---------------------------- MODULE Spec2Model ----------------------------
(***************************************************************************)
(* A model of the build pipeline of siteware (siteware.go): build() and    *)
(* generateHTML() as a state machine over one file system.                 *)
(*                                                                         *)
(* A path is the sequence of the tokens of the Go string: the names        *)
(* between the separators, with the token "/" standing for a separator     *)
(* that begins the string (a rooted path) or that follows another          *)
(* separator.  "." is <<".">> and the empty string is << >>.               *)
(***************************************************************************)
EXTENDS Integers, Sequences, FiniteSets, TLC

(***************************************************************************)
(* Program constants (siteware.go:47-53).                                  *)
(***************************************************************************)
StaticDirName == "static"
SourceDirName == "src"
TemplateDirName == "templates"
DirConfigFileName == "siteware.json"
DefaultTemplateName == "default.template"
ConfigFileName == "siteware.master.json"
ThumbDirName == ".thumbs"

\* var DefaultDirConfig = make(map[string]fileConfig): the empty map.
DefaultDirConfig == [k \in {} |-> 0]

\* The value of a nil interface{} data payload.
NilData == "nil"

(***************************************************************************)
(* path/filepath and strings, on token sequences.                          *)
(***************************************************************************)
Sep == "/"
Dot == <<".">>

\* One step of filepath.Clean: token c, the i-th of the string, is applied
\* to the cleaned prefix acc.
CleanStep(acc, c, i) ==
    IF c = Sep
    THEN IF i = 1 THEN <<Sep>> ELSE acc
    ELSE IF c = "." THEN acc
    ELSE IF c = ".."
         THEN IF Len(acc) = 0 THEN <<"..">>
              ELSE IF acc[Len(acc)] = Sep THEN acc
              ELSE IF acc[Len(acc)] = ".." THEN Append(acc, "..")
              ELSE SubSeq(acc, 1, Len(acc) - 1)
         ELSE Append(acc, c)

RECURSIVE CleanFrom(_, _, _)
CleanFrom(p, i, acc) ==
    IF i > Len(p) THEN acc ELSE CleanFrom(p, i + 1, CleanStep(acc, p[i], i))

\* filepath.Clean: the shortest equivalent path; "." for an empty result.
Clean(p) ==
    LET c == CleanFrom(p, 1, << >>) IN IF Len(c) = 0 THEN Dot ELSE c

\* filepath.Join of two elements: empty elements are dropped, the rest is
\* joined with separators and cleaned; all empty gives the empty string.
\* A second element that begins with a separator leaves an empty component
\* at the seam, which Clean drops.
Join(a, b) ==
    IF Len(a) = 0 /\ Len(b) = 0 THEN << >>
    ELSE IF Len(a) = 0 THEN Clean(b)
    ELSE Clean(a \o (IF Len(b) > 0 /\ b[1] = Sep THEN Tail(b) ELSE b))

Join3(a, b, c) == Join(Join(a, b), c)
Join4(a, b, c, d) == Join(Join3(a, b, c), d)

\* filepath.Dir: all but the last element, cleaned.
Dir(p) ==
    IF Len(p) = 0 THEN Dot
    ELSE IF p = <<Sep>> THEN p
    ELSE Clean(SubSeq(p, 1, Len(p) - 1))

\* os.FileInfo.Name / filepath.Base of a cleaned path.
Base(p) == IF Len(p) = 0 THEN "." ELSE p[Len(p)]

IsPrefix(pre, p) ==
    /\ Len(pre) <= Len(p)
    /\ SubSeq(p, 1, Len(pre)) = pre

\* strings.TrimPrefix: the rest of the string after the prefix; what follows
\* a whole-name prefix begins with the separator that was after it.  The
\* names of the model are such that no prefix ends inside a name.
TrimPrefix(p, pre) ==
    IF ~IsPrefix(pre, p) THEN p
    ELSE IF Len(p) = Len(pre) THEN << >>
    ELSE <<Sep>> \o SubSeq(p, Len(pre) + 1, Len(p))

\* filepath.Ext of a file name: the suffix from the last dot.  Names are
\* atoms here, so the suffix is tabulated over the names of the model.
ExtOfName(n) ==
    CASE n \in {"index.html", "page.html", "docs.html", "old.html"} -> ".html"
      [] n \in {"a.htm"} -> ".htm"
      [] n \in {"a.png"} -> ".png"
      [] n \in {"B.PNG"} -> ".PNG"
      [] n \in {"c.jpg"} -> ".jpg"
      [] n \in {"notes.txt"} -> ".txt"
      [] n \in {DirConfigFileName, ConfigFileName} -> ".json"
      [] n \in {DefaultTemplateName, "page.template"} -> ".template"
      [] n \in {ThumbDirName} -> ".thumbs"
      [] n \in {".git"} -> ".git"
      [] n \in {".gitignore"} -> ".gitignore"
      [] OTHER -> ""

Ext(p) == IF Len(p) = 0 THEN "" ELSE ExtOfName(p[Len(p)])

\* The names of the model in the order of sort.Strings, which filepath.Walk
\* applies to the names of each directory.
NameOrder ==
    <<".git", ".gitignore", ".thumbs", "B.PNG", "CNAME", "HEAD", "a.htm",
      "a.png", "c.jpg", "deep", "default.template", "docs.html", "icons",
      "img", "index.html", "keep", "notes.txt", "old.html", "olddir", "page.html",
      "page.template", "siteware.json", "siteware.master.json", "src",
      "static", "templates">>

Rank(n) == CHOOSE i \in 1..Len(NameOrder) : NameOrder[i] = n


(***************************************************************************)
(* The file system: a function from cleaned paths to nodes.  A node's kind *)
(* is "dir", "file" (a regular file) or "symlink" (anything Lstat reports  *)
(* as neither a directory nor a regular file).                             *)
(***************************************************************************)
Node(kind, tag, tmpl, data, ref) ==
    [kind |-> kind, tag |-> tag, tmpl |-> tmpl, data |-> data, ref |-> ref]

DirNode == Node("dir", "", "", "", << >>)
FileNode(tag) == Node("file", tag, "", "", << >>)

\* The directory that holds p; "/" and "." and a leading ".." hold themselves.
Parent(p) == IF Len(p) > 0 /\ p[Len(p)] = ".." THEN p ELSE Dir(p)

\* p is q or lies beneath q.
RECURSIVE IsUnder(_, _)
IsUnder(p, q) ==
    \/ p = q
    \/ /\ Parent(p) # p
       /\ IsUnder(Parent(p), q)

\* p and the directories above it, nearest first.
RECURSIVE Ancestors(_)
Ancestors(p) == IF Parent(p) = p THEN {p} ELSE {p} \cup Ancestors(Parent(p))

Exists(f, p) == p \in DOMAIN f
IsDirAt(f, p) == Exists(f, p) /\ f[p].kind = "dir"

Restrict(f, S) == [q \in S |-> f[q]]

\* os.RemoveAll(p) when it succeeds: p and everything beneath it is gone.
RemoveAllFS(f, p) == Restrict(f, {q \in DOMAIN f : ~IsUnder(q, p)})

\* os.Remove(p) when it succeeds on a file.
RemoveFS(f, p) == Restrict(f, DOMAIN f \ {p})

\* os.MkdirAll(p) can succeed: nothing at or above p is a non-directory.
CanMkdirAll(f, p) == \A q \in Ancestors(p) : Exists(f, q) => f[q].kind = "dir"

\* os.MkdirAll(p) when it succeeds: p and its missing parents are directories.
MkdirAllFS(f, p) ==
    LET new == {q \in Ancestors(p) : ~Exists(f, q)}
    IN  [q \in DOMAIN f \cup new |-> IF q \in new THEN DirNode ELSE f[q]]

\* os.Create(p) / imaging.Save(p) can succeed: the parent is a directory and
\* p itself is no directory.
CanCreate(f, p) == IsDirAt(f, Parent(p)) /\ ~IsDirAt(f, p)

\* The file system after p was written with node n.
WriteFS(f, p, n) == [q \in DOMAIN f \cup {p} |-> IF q = p THEN n ELSE f[q]]

\* The names in directory d, in the order of sort.Strings (readDirNames).
ChildPaths(f, d) == {q \in DOMAIN f : q # d /\ Parent(q) = d}

RECURSIVE SortPaths(_)
SortPaths(S) ==
    IF S = {} THEN << >>
    ELSE LET m == CHOOSE q \in S : \A r \in S : Rank(Base(q)) <= Rank(Base(r))
         IN  <<m>> \o SortPaths(S \ {m})

SortedChildren(f, d) == SortPaths(ChildPaths(f, d))

\* The nodes of tree under `from`, re-rooted under `to`.
Reroot(p, from, to) == Join(to, TrimPrefix(p, from))

\* dirsync.Sync(src, dst) when it succeeds: dst becomes a mirror of src.
SyncFS(f, src, dst) ==
    LET kept == {q \in DOMAIN f : ~IsUnder(q, dst)}
        srcs == {q \in DOMAIN f : IsUnder(q, src)}
        img  == {Reroot(q, src, dst) : q \in srcs}
        g    == MkdirAllFS(Restrict(f, kept), dst)
    IN  [q \in DOMAIN g \cup img |->
            IF q \in img
            THEN f[CHOOSE s \in srcs : Reroot(s, src, dst) = q]
            ELSE g[q]]


(***************************************************************************)
(* The process: its working directory, and how a path names a node.        *)
(***************************************************************************)
\* The working directory of the process; the project lives in it.
Cwd == <<Sep, "site">>

IsAbs(p) == Len(p) > 0 /\ p[1] = Sep

\* filepath.Abs when it succeeds, and the node a system call resolves its
\* path argument to.
Abs(p) == IF IsAbs(p) THEN Clean(p) ELSE Join(Cwd, p)

\* os.Open(p) finds something to open; the empty path names nothing.
CanOpen(f, p) == Len(p) > 0 /\ Exists(f, Abs(p))

(***************************************************************************)
(* Directory configurations: what json.Decode yields for the contents a    *)
(* siteware.json can have in the model (type dirConfig, fileConfig and     *)
(* thumbnailConfig, siteware.go:26-38).                                    *)
(***************************************************************************)
ThumbnailConfig(m, w, h) == [Method |-> m, Width |-> w, Height |-> h]

NoThumbnails == [k \in {} |-> 0]

FileConfig(t, d, a) == [Template |-> t, Data |-> d, AutoThumbnail |-> a]

\* One entry per case of a file's lookup, and thumbnails for a flat
\* directory of the static tree.
CfgA ==
    [k \in {"a.htm", "index.html", StaticDirName} |->
        CASE k = "a.htm" -> FileConfig("", "d1", NoThumbnails)
          [] k = "index.html" -> FileConfig("page.template", "d2", NoThumbnails)
          [] OTHER -> FileConfig("", NilData,
                        [s \in {<<"icons">>} |-> ThumbnailConfig("fit", 100, 100)])]

\* Thumbnails for two directories of the static tree, one of them nested.
CfgB ==
    [k \in {"page.html", StaticDirName} |->
        CASE k = "page.html" -> FileConfig("page.template", "d3", NoThumbnails)
          [] OTHER -> FileConfig("", NilData,
                        [s \in {<<"icons">>, <<"img">>} |->
                            IF s = <<"icons">>
                            THEN ThumbnailConfig("fill", 50, 50)
                            ELSE ThumbnailConfig("resize", 50, 80)])]

\* File entries only.
CfgC ==
    [k \in {"index.html", "page.html"} |->
        IF k = "index.html"
        THEN FileConfig("", "d4", NoThumbnails)
        ELSE FileConfig("page.template", NilData, NoThumbnails)]

\* Thumbnails for a key that leads out of the static tree: AutoThumbnail is
\* a map[string]thumbnailConfig and any string is a key.
CfgD ==
    [k \in {StaticDirName} |->
        FileConfig("", NilData,
                   [s \in {<<"..", "..", "site", TemplateDirName>>} |->
                       ThumbnailConfig("fit", 100, 100)])]

\* The contents a siteware.json can have; "bad" does not decode.
CfgContents == {"cfgA", "cfgB", "cfgC", "cfgD", "bad"}

DecodeDirConfig(content) ==
    CASE content = "cfgA" -> CfgA
      [] content = "cfgB" -> CfgB
      [] content = "cfgD" -> CfgD
      [] OTHER -> CfgC


(***************************************************************************)
(* State.                                                                  *)
(***************************************************************************)
VARIABLES
    InputPath,     \* var InputPath = filepath.Dir(os.Args[0])
    Config,        \* var Config config
    fs,            \* the file system
    fs0,           \* the file system when the build began
    pc,            \* where build / generateHTML stands
    absInputPath,  \* build's local InputPath (the result of filepath.Abs)
    files,         \* build: the entries of repo.Readdir(0) not yet looped over
    configs,       \* generateHTML: configs, map[string]dirConfig
    stack,         \* filepath.Walk over the source tree: the paths still to visit
    cur,           \* the callback's path and info
    cfg,           \* the callback's cfg
    thumbs,        \* the keys of AutoThumbnail the range loop has not reached
    thumbKey,      \* imgDirPath of the running iteration
    imgStack,      \* filepath.Walk over the image directory: paths still to visit
    handles,       \* the files the process holds open
    log,           \* every file system operation so far, in order
    err,           \* the error the build ended with, "" so far
    envChanges,    \* how often the environment has rewritten a siteware.json
    ignored,       \* how many errors the build has dropped and gone on
    rdCall,        \* a call of readdir by a template: its locals and position
    thCall         \* a call of thumbnail: its arguments, locals and position

vars == <<InputPath, Config, fs, fs0, pc, absInputPath, files, configs, stack,
          cur, cfg, thumbs, thumbKey, imgStack, handles, log, err, envChanges,
          ignored, rdCall, thCall>>

\* The environment rewrites a configuration file at most this often.
MaxEnvChanges == 1

\* At most this many operations fail without ending the build.
MaxIgnored == 1

Evt(op, p, q, ok) == [op |-> op, p |-> p, q |-> q, ok |-> ok]

NoEntry == [path |-> << >>, kind |-> ""]

\* No call of readdir or thumbnail is being followed.
NoCall == [at |-> "none"]

(***************************************************************************)
(* The initial file system: the project in Cwd (master configuration,      *)
(* source tree, static tree, templates) and the output tree of an earlier  *)
(* build.                                                                  *)
(***************************************************************************)
FsOf(S) == [p \in {e[1] : e \in S} |-> (CHOOSE e \in S : e[1] = p)[2]]

At(root, S) == {<<Join(root, e[1]), e[2]>> : e \in S}

\* What the master configuration's "output" field can hold.
OutputPath == <<"..", "www">>
MasterOutputs == {<< >>, OutputPath}

\* The values filepath.Dir(os.Args[0]) can have for a binary in Cwd.
InputPaths == {Dot, Cwd}

\* The kinds the entries a.htm and index.html of the source tree can have.
EntryKinds == {"file", "symlink"}

ProjectTree(ka, ki, mo) ==
    { <<<<ConfigFileName>>, Node("file", "json", "", "", mo)>>,
      <<<<SourceDirName>>, DirNode>>,
      <<<<SourceDirName, "a.htm">>, Node(ka, "src", "", "", << >>)>>,
      <<<<SourceDirName, "docs.html">>, DirNode>>,
      <<<<SourceDirName, "docs.html", "page.html">>, FileNode("src")>>,
      <<<<SourceDirName, "index.html">>, Node(ki, "src", "", "", << >>)>>,
      <<<<SourceDirName, "notes.txt">>, FileNode("src")>>,
      <<<<StaticDirName>>, DirNode>>,
      <<<<StaticDirName, "icons">>, DirNode>>,
      <<<<StaticDirName, "icons", "a.png">>, FileNode("image")>>,
      <<<<StaticDirName, "img">>, DirNode>>,
      <<<<StaticDirName, "img", "B.PNG">>, FileNode("image")>>,
      <<<<StaticDirName, "img", "a.png">>, FileNode("image")>>,
      <<<<StaticDirName, "img", "deep">>, DirNode>>,
      <<<<StaticDirName, "img", "deep", "c.jpg">>, FileNode("image")>>,
      <<<<StaticDirName, "img", "notes.txt">>, FileNode("asset")>>,
      <<<<TemplateDirName>>, DirNode>>,
      <<<<TemplateDirName, DefaultTemplateName>>, FileNode("template")>>,
      <<<<TemplateDirName, "page.template">>, FileNode("template")>> }

\* The directories whose siteware.json the walk looks for: the one that holds
\* the source root, the source root, and the directory beneath it.
ConfigDirs == << << >>, <<SourceDirName>>, <<SourceDirName, "docs.html">> >>

CfgNode(content) == Node("file", "json", "", content, << >>)

\* cs[i] is the content of the siteware.json of ConfigDirs[i], "none" for no file.
ConfigFiles(cs) ==
    { <<ConfigDirs[i] \o <<DirConfigFileName>>, CfgNode(cs[i])>> :
        i \in {j \in 1..3 : cs[j] # "none"} }

\* What each immediate child of the output root brings with it.
OutChild(n) ==
    CASE n = ".git" -> { <<<<".git">>, DirNode>>, <<<<".git", "HEAD">>, FileNode("old")>> }
      [] n = StaticDirName ->
            { <<<<StaticDirName>>, DirNode>>, <<<<StaticDirName, "keep">>, FileNode("old")>> }
      [] n = "olddir" ->
            { <<<<"olddir">>, DirNode>>, <<<<"olddir", "page.html">>, FileNode("old")>> }
      [] OTHER -> { <<<<n>>, FileNode("old")>> }

OutChildNames == {".git", StaticDirName, ".gitignore", "CNAME", "old.html", "olddir"}

OutputTree(kids) == UNION {OutChild(n) : n \in kids}

InitFS(kids, ka, ki, mo, cs) ==
    FsOf( { <<<<Sep>>, DirNode>>, <<Cwd, DirNode>>, <<Abs(OutputPath), DirNode>> }
          \cup At(Cwd, ProjectTree(ka, ki, mo))
          \cup At(Cwd, ConfigFiles(cs))
          \cup At(Abs(OutputPath), OutputTree(kids)) )


\* The sets of children the output root starts with.
OutChildSets == SUBSET OutChildNames

\* The output root of the runs that vary the source tree instead.
BaseChildren == {".git", StaticDirName, "old.html"}

\* The contents the three configuration files start with.
NoConfigs == <<"none", "none", "none">>

InitialConfigs ==
    { <<c1, c2, c3>> : c1 \in {"none", "cfgA"},
                       c2 \in {"none"} \cup CfgContents,
                       c3 \in {"none", "cfgC"} }

\* The initial states explored: every set of children of the output root
\* over a source tree of regular files without configuration files, and
\* every source tree over one output root.
Explored(mo, kids, ka, ki, cs) ==
    \/ ka = "file" /\ ki = "file" /\ cs = NoConfigs
    \/ mo = OutputPath /\ kids = BaseChildren

Init ==
    \E ip \in InputPaths, mo \in MasterOutputs, kids \in OutChildSets,
       ka \in EntryKinds, ki \in EntryKinds, cs \in InitialConfigs :
        /\ Explored(mo, kids, ka, ki, cs)
        /\ InputPath = ip
        /\ Config = [Output |-> << >>]
        /\ fs = InitFS(kids, ka, ki, mo, cs)
        /\ fs0 = fs
        /\ pc = "load"
        /\ absInputPath = << >>
        /\ files = << >>
        /\ configs = [d \in {} |-> 0]
        /\ stack = << >>
        /\ cur = NoEntry
        /\ cfg = DefaultDirConfig
        /\ thumbs = {}
        /\ thumbKey = << >>
        /\ imgStack = << >>
        /\ handles = {}
        /\ log = << >>
        /\ err = ""
        /\ envChanges = 0
        /\ ignored = 0
        /\ rdCall = NoCall
        /\ thCall = NoCall

(***************************************************************************)
(* build (siteware.go:125-186).  ErrorLogger.Fatalf ends the process; so   *)
(* does the panic of line 159.                                             *)
(***************************************************************************)
\* The error is noted and the walk goes on with the next entry.
FatalGoesOn(e) == pc' = "walk" /\ err' = e

Fatal(e) == pc' = "fatal" /\ err' = e

\* build with the static sync moved before the clearing loop.
BuildOrderSyncFirst ==
    <<"load", "abs", "check", "open", "readdir", "sync", "clear", "generate">>

\* The statements of build in the order of the source; each names the
\* position it leaves the build in.
BuildOrder ==
    <<"load", "abs", "check", "open", "readdir", "clear", "sync", "generate">>

After(step) ==
    BuildOrder[(CHOOSE i \in 1..Len(BuildOrder) : BuildOrder[i] = step) + 1]

\* Lines 127-137: open, decode and close the master configuration.
LoadConfig ==
    /\ pc = "load"
    /\ LET cfgPath == Join(InputPath, <<ConfigFileName>>) IN
       \E outcome \in {"ok", "open", "decode", "close"} :
          /\ log' = Append(log, Evt("open", cfgPath, << >>, outcome # "open"))
          /\ IF outcome = "ok" /\ CanOpen(fs, cfgPath)
             THEN /\ Config' = [Output |-> fs[Abs(cfgPath)].ref]
                  /\ pc' = After("load")
                  /\ UNCHANGED <<err, handles>>
             ELSE /\ Fatal(IF CanOpen(fs, cfgPath) THEN outcome ELSE "open")
                  /\ handles' = IF outcome = "decode"
                                THEN handles \cup {cfgPath} ELSE handles
                  /\ UNCHANGED Config
    /\ UNCHANGED <<rdCall, thCall,
                   InputPath, fs, fs0, absInputPath, files, configs, stack,
                   cur, cfg, thumbs, thumbKey, imgStack, envChanges,
                   ignored>>

\* Lines 139-142: filepath.Abs, into a variable local to build.
ResolveInputPath ==
    /\ pc = "abs"
    /\ \E ok \in BOOLEAN :
          IF ok
          THEN /\ absInputPath' = Abs(InputPath)
               /\ pc' = After("abs")
               /\ UNCHANGED err
          ELSE /\ Fatal("abs")
               /\ UNCHANGED absInputPath
    /\ UNCHANGED <<rdCall, thCall,
                   InputPath, Config, fs, fs0, files, configs, stack, cur,
                   cfg, thumbs, thumbKey, imgStack, handles, log,
                   envChanges, ignored>>

\* build without the test of line 143.
OutputUnsetNever(c) == FALSE

\* Line 143: Config.Output == "".
OutputUnset(c) == Len(c.Output) = 0

\* Lines 143-145.
CheckOutput ==
    /\ pc = "check"
    /\ IF OutputUnset(Config)
       THEN Fatal("output unset")
       ELSE pc' = After("check") /\ UNCHANGED err
    /\ UNCHANGED <<rdCall, thCall,
                   InputPath, Config, fs, fs0, absInputPath, files, configs,
                   stack, cur, cfg, thumbs, thumbKey, imgStack,
                   handles, log, envChanges, ignored>>

\* Lines 149-156: open the output root.
OpenRepo ==
    /\ pc = "open"
    /\ \E ok \in BOOLEAN :
          /\ log' = Append(log, Evt("openrepo", Config.Output, << >>,
                                    ok /\ CanOpen(fs, Config.Output)))
          /\ IF ok /\ CanOpen(fs, Config.Output)
             THEN /\ handles' = handles \cup {Config.Output}
                  /\ pc' = After("open")
                  /\ UNCHANGED err
             ELSE /\ Fatal("openrepo")
                  /\ UNCHANGED handles
    /\ UNCHANGED <<rdCall, thCall,
                   InputPath, Config, fs, fs0, absInputPath, files, configs,
                   stack, cur, cfg, thumbs, thumbKey, imgStack,
                   envChanges, ignored>>

RECURSIVE Reverse(_)
Reverse(q) == IF q = << >> THEN << >> ELSE Append(Reverse(Tail(q)), Head(q))

\* The os.FileInfo values of the entries of directory d.
FileInfos(f, d) ==
    LET paths == SortedChildren(f, d)
    IN  [i \in 1..Len(paths) |->
            [name |-> Base(paths[i]), isDir |-> f[paths[i]].kind = "dir"]]

\* Lines 157-160: repo.Readdir(0), in directory order; a failure panics.
ReaddirRepo ==
    /\ pc = "readdir"
    /\ \E ok \in BOOLEAN :
          IF ok
          THEN /\ \E order \in { FileInfos(fs, Abs(Config.Output)),
                                 Reverse(FileInfos(fs, Abs(Config.Output))) } :
                     files' = order
               /\ pc' = After("readdir")
               /\ UNCHANGED err
          ELSE /\ pc' = "panic"
               /\ err' = "readdir"
               /\ UNCHANGED files
    /\ log' = Append(log, Evt("readdir", Config.Output, << >>, pc' # "panic"))
    /\ UNCHANGED <<rdCall, thCall,
                   InputPath, Config, fs, fs0, absInputPath, configs, stack,
                   cur, cfg, thumbs, thumbKey, imgStack, handles,
                   envChanges, ignored>>

\* Line 162: the names the loop skips.
IsProtected(name) ==
    name = ".git" \/ name = StaticDirName \/ name = ".gitignore" \/ name = "CNAME"

\* Lines 161-170, one iteration: the results of os.RemoveAll and os.Remove
\* are dropped.
ClearEntry ==
    /\ pc = "clear"
    /\ files # << >>
    /\ LET file == Head(files)
           target == Join(Config.Output, <<file.name>>)
       IN  IF IsProtected(file.name)
           THEN UNCHANGED <<fs, log, ignored>>
           ELSE \E ok \in {b \in BOOLEAN : b \/ ignored < MaxIgnored} :
                   /\ fs' = IF ~ok THEN fs
                            ELSE IF file.isDir
                                 THEN RemoveAllFS(fs, Abs(target))
                                 ELSE RemoveFS(fs, Abs(target))
                   /\ log' = Append(log, Evt("remove", target, << >>, ok))
                   /\ ignored' = IF ok THEN ignored ELSE ignored + 1
    /\ files' = Tail(files)
    /\ UNCHANGED <<rdCall, thCall,
                   InputPath, Config, fs0, pc, absInputPath, configs, stack,
                   cur, cfg, thumbs, thumbKey, imgStack, handles, err,
                   envChanges>>

\* Lines 171-173: the loop is over; close the output root.
CloseRepo ==
    /\ pc = "clear"
    /\ files = << >>
    /\ \E ok \in BOOLEAN :
          IF ok
          THEN /\ handles' = handles \ {Config.Output}
               /\ pc' = After("clear")
               /\ UNCHANGED err
          ELSE /\ Fatal("closerepo")
               /\ UNCHANGED handles
    /\ UNCHANGED <<rdCall, thCall,
                   InputPath, Config, fs, fs0, absInputPath, files, configs,
                   stack, cur, cfg, thumbs, thumbKey, imgStack, log,
                   envChanges, ignored>>

\* Lines 176-179: dirsync.Sync of the static tree; then generateHTML begins
\* (line 189: an empty configs map; line 191: the walk starts at the root).
SyncStatics ==
    /\ pc = "sync"
    /\ LET src == Join(absInputPath, <<StaticDirName>>)
           dst == Join(Config.Output, <<StaticDirName>>)
       IN  \E ok \in BOOLEAN :
              /\ log' = Append(log, Evt("sync", dst, src, ok))
              /\ IF ok
                 THEN /\ fs' = SyncFS(fs, Abs(src), Abs(dst))
                      /\ pc' = After("sync")
                      /\ UNCHANGED err
                 ELSE /\ Fatal("sync")
                      /\ UNCHANGED fs
    /\ UNCHANGED <<rdCall, thCall,
                   InputPath, Config, fs0, absInputPath, files, configs,
                   stack, cur, cfg, thumbs, thumbKey, imgStack,
                   handles, envChanges, ignored>>


(***************************************************************************)
(* generateHTML (siteware.go:188-300): filepath.Walk over the source tree  *)
(* and the callback, step by step.                                         *)
(***************************************************************************)
SourceRoot == Join(InputPath, <<SourceDirName>>)

\* Lines 189-191: an empty configs map; the walk begins at the source root.
GenerateHTML ==
    /\ pc = "generate"
    /\ configs' = [d \in {} |-> 0]
    /\ stack' = <<SourceRoot>>
    /\ pc' = "walk"
    /\ UNCHANGED <<rdCall, thCall,
                   InputPath, Config, fs, fs0, absInputPath, files, cur, cfg,
                   thumbs, thumbKey, imgStack, handles, log, err,
                   envChanges, ignored>>

\* The range loop moved out of the branch of line 204: it runs at every
\* visit.
ThumbnailKeysEveryVisit(c, exist) ==
    IF StaticDirName \in DOMAIN c
    THEN DOMAIN c[StaticDirName].AutoThumbnail
    ELSE {}

\* Lines 228-229: the keys the range loop over AutoThumbnail goes through.
\* The loop stands inside the branch taken when configs did not hold the
\* directory (line 204) and its file was decoded.
ThumbnailKeys(c, exist) ==
    IF exist THEN {}
    ELSE IF StaticDirName \in DOMAIN c
         THEN DOMAIN c[StaticDirName].AutoThumbnail
         ELSE {}

\* Lines 192-202: Walk hands the next path to the callback; an error of the
\* walk is returned at once, otherwise configs is looked up.
WalkNext ==
    /\ pc = "walk"
    /\ stack # << >>
    /\ LET path == Head(stack)
           dir  == Dir(path)
       IN  \E ok \in BOOLEAN :
              /\ log' = Append(log, Evt("visit", path, << >>,
                                        ok /\ Exists(fs, Abs(path))))
              /\ IF ok /\ Exists(fs, Abs(path))
                 THEN /\ cur' = [path |-> path, kind |-> fs[Abs(path)].kind]
                      /\ IF dir \in DOMAIN configs
                         THEN /\ cfg' = configs[dir]
                              /\ thumbs' = ThumbnailKeys(configs[dir], TRUE)
                              /\ pc' = IF thumbs' = {} THEN "dispatch" ELSE "thumbs"
                         ELSE /\ pc' = "resolve"
                              /\ UNCHANGED <<cfg, thumbs>>
                      /\ UNCHANGED err
                 ELSE /\ Fatal("walk")
                      /\ UNCHANGED <<cur, cfg, thumbs>>
    /\ UNCHANGED <<rdCall, thCall,
                   InputPath, Config, fs, fs0, absInputPath, files, configs,
                   stack, thumbKey, imgStack, handles, envChanges,
                   ignored>>

\* The assignments of lines 211 and 221 left out.
CacheNothing(m, dir, c) == m

\* configs[dir] takes c laid over what configs holds for the directory above.
CacheMerged(m, dir, c) ==
    LET base == IF Dir(dir) \in DOMAIN m THEN m[Dir(dir)] ELSE DefaultDirConfig
        merged == [k \in DOMAIN base \cup DOMAIN c |->
                      IF k \in DOMAIN c THEN c[k] ELSE base[k]]
    IN  [d \in DOMAIN m \cup {dir} |-> IF d = dir THEN merged ELSE m[d]]

\* Line 211 / line 221: configs[dir] = c.
Cache(m, dir, c) == [d \in DOMAIN m \cup {dir} |-> IF d = dir THEN c ELSE m[d]]

\* Lines 204-225: configs did not hold the directory; read its siteware.json.
ResolveDirConfig ==
    /\ pc = "resolve"
    /\ LET dir  == Dir(cur.path)
           file == Join(dir, <<DirConfigFileName>>)
       IN  IF ~CanOpen(fs, file)
           THEN \* os.IsNotExist: the defaults, cached.
                /\ log' = Append(log, Evt("opencfg.absent", file, dir, TRUE))
                /\ configs' = Cache(configs, dir, DefaultDirConfig)
                /\ cfg' = DefaultDirConfig
                /\ pc' = "dispatch"
                /\ UNCHANGED <<thumbs, handles, err>>
           ELSE \E outcome \in {"ok", "open", "decode", "close"} :
                /\ log' = Append(log, Evt("opencfg", file, dir, outcome # "open"))
                /\ IF outcome = "open"
                   THEN /\ Fatal("opencfg")
                        /\ UNCHANGED <<configs, cfg, thumbs, handles>>
                   ELSE IF outcome = "decode" \/ fs[Abs(file)].data = "bad"
                   THEN \* line 219: returns with cfgf open
                        /\ Fatal("decode")
                        /\ handles' = handles \cup {file}
                        /\ UNCHANGED <<configs, cfg, thumbs>>
                   ELSE LET c == DecodeDirConfig(fs[Abs(file)].data) IN
                        /\ configs' = Cache(configs, dir, c)
                        /\ cfg' = c
                        /\ IF outcome = "close"
                           THEN /\ Fatal("closecfg")
                                /\ UNCHANGED <<thumbs, handles>>
                           ELSE /\ thumbs' = ThumbnailKeys(c, FALSE)
                                /\ pc' = IF thumbs' = {} THEN "dispatch" ELSE "thumbs"
                                /\ UNCHANGED <<handles, err>>
    /\ UNCHANGED <<rdCall, thCall,
                   InputPath, Config, fs, fs0, absInputPath, files, stack,
                   cur, thumbKey, imgStack, envChanges, ignored>>


\* The paths Walk visits after directory `path`: filepath.Join(path, name)
\* for the names in it, sorted.
WalkChildren(f, path) ==
    LET kids == SortedChildren(f, Abs(path))
    IN  [i \in 1..Len(kids) |-> Join(path, <<Base(kids[i])>>)]

\* Lines 229-234: one iteration of the range loop begins; map iteration
\* takes the keys in any order.
ThumbsStart ==
    /\ pc = "thumbs"
    /\ thumbs # {}
    /\ \E k \in thumbs, ok \in BOOLEAN :
          LET imgSrcDirPath == Join3(InputPath, <<StaticDirName>>, k)
              target == Join4(Config.Output, <<StaticDirName>>, k, <<ThumbDirName>>)
              made   == ok /\ CanMkdirAll(fs, Abs(target))
          IN  /\ log' = log \o << Evt("thumbs", k, Dir(cur.path), TRUE),
                                  Evt("mkdirall", target, << >>, made) >>
              /\ IF made
                 THEN /\ fs' = MkdirAllFS(fs, Abs(target))
                      /\ thumbs' = thumbs \ {k}
                      /\ thumbKey' = k
                      /\ imgStack' = <<imgSrcDirPath>>
                      /\ pc' = "imgwalk"
                      /\ UNCHANGED err
                 ELSE /\ Fatal("mkdirall")
                      /\ UNCHANGED <<fs, thumbs, thumbKey, imgStack>>
    /\ UNCHANGED <<rdCall, thCall,
                   InputPath, Config, fs0, absInputPath, files, configs,
                   stack, cur, cfg, handles, envChanges, ignored>>

\* Line 237: the extensions the image walk does not skip.
IsImageExt(ext) == ~(ext # ".png" /\ ext # ".jpg" /\ ext # ".jpeg")

\* Lines 240-241: where the derivative of imgPath goes.
DestImgPath(imgPath) ==
    LET relImgPath == TrimPrefix(imgPath, SourceRoot)
    IN  Join4(Config.Output, Dir(relImgPath), <<ThumbDirName>>, <<Base(imgPath)>>)

\* Lines 235-246 and thumbnail (302-328): the image walk hands the next path
\* to its callback, which does not look at the error it is given.
ImgWalk ==
    /\ pc = "imgwalk"
    /\ imgStack # << >>
    /\ LET imgPath == Head(imgStack)
           dest    == DestImgPath(imgPath)
           method  == cfg[StaticDirName].AutoThumbnail[thumbKey].Method
           isImage == IsImageExt(Ext(imgPath))
       IN  \E outcome \in {"ok", "walk", "open", "save"} :
              IF outcome = "walk" \/ ~Exists(fs, Abs(imgPath))
              THEN \* The callback is called with the error and, when Lstat
                   \* failed, a nil imgInfo: line 238 returns nil for a
                   \* name that is no image, line 241 panics for one that is.
                   /\ isImage \/ ignored < MaxIgnored
                   /\ log' = Append(log, Evt("imgwalk", imgPath, << >>, FALSE))
                   /\ IF isImage
                      THEN /\ pc' = "panic"
                           /\ err' = "nil imgInfo"
                           /\ UNCHANGED <<imgStack, ignored>>
                      ELSE /\ imgStack' = Tail(imgStack)
                           /\ ignored' = ignored + 1
                           /\ UNCHANGED <<pc, err>>
                   /\ UNCHANGED fs
              ELSE IF ~isImage
              THEN /\ imgStack' =
                         (IF fs[Abs(imgPath)].kind = "dir"
                          THEN WalkChildren(fs, imgPath) ELSE << >>)
                         \o Tail(imgStack)
                   /\ UNCHANGED <<fs, log, pc, err, ignored>>
              ELSE IF outcome = "open" \/ fs[Abs(imgPath)].kind = "dir"
              THEN /\ log' = Append(log, Evt("imaging.Open", imgPath, << >>, FALSE))
                   /\ Fatal("imaging.Open")
                   /\ UNCHANGED <<fs, imgStack, ignored>>
              ELSE LET saved == outcome = "ok" /\ CanCreate(fs, Abs(dest)) IN
                   /\ log' = Append(log, Evt("save", dest, imgPath, saved))
                   /\ IF saved
                      THEN /\ fs' = WriteFS(fs, Abs(dest),
                                      Node("file", "thumb", "", method, imgPath))
                           /\ imgStack' = Tail(imgStack)
                           /\ UNCHANGED <<pc, err>>
                      ELSE /\ Fatal("save")
                           /\ UNCHANGED <<fs, imgStack>>
                   /\ UNCHANGED ignored
    /\ UNCHANGED <<rdCall, thCall,
                   InputPath, Config, fs0, absInputPath, files, configs,
                   stack, cur, cfg, thumbs, thumbKey, handles, envChanges>>

\* Line 246: the image walk is over; the range loop goes on.
ImgWalkDone ==
    /\ pc = "imgwalk"
    /\ imgStack = << >>
    /\ pc' = "thumbs"
    /\ UNCHANGED <<rdCall, thCall,
                   InputPath, Config, fs, fs0, absInputPath, files, configs,
                   stack, cur, cfg, thumbs, thumbKey, imgStack,
                   handles, log, err, envChanges, ignored>>

\* Line 249: the range loop is over.
ThumbsDone ==
    /\ pc = "thumbs"
    /\ thumbs = {}
    /\ pc' = "dispatch"
    /\ UNCHANGED <<rdCall, thCall,
                   InputPath, Config, fs, fs0, absInputPath, files, configs,
                   stack, cur, cfg, thumbs, thumbKey, imgStack,
                   handles, log, err, envChanges, ignored>>

\* Lines 257-258 taken for every entry, whatever the configuration holds.
SelectTemplateAlwaysDefault(c, name) ==
    [ftmpl |-> DefaultTemplateName, fdata |-> NilData]

\* Lines 253-266: the template and the data for the entry named `name`.
SelectTemplate(c, name) ==
    IF name \notin DOMAIN c
    THEN [ftmpl |-> DefaultTemplateName, fdata |-> NilData]
    ELSE [ftmpl |-> IF c[name].Template = "" THEN DefaultTemplateName
                    ELSE c[name].Template,
          fdata |-> c[name].Data]

\* Line 273: info.Mode().IsRegular() && ext == ".html" || ext == ".htm",
\* as Go parses it.
IsRendered(kind, ext) == (kind = "file" /\ ext = ".html") \/ ext = ".htm"

\* Lines 192-193.
DestPath(path) == Join(Config.Output, TrimPrefix(path, SourceRoot))

\* Lines 253-294: the entry is dispatched and the callback returns.
Dispatch ==
    /\ pc = "dispatch"
    /\ LET path == cur.path
           dest == DestPath(path)
           sel  == SelectTemplate(cfg, Base(path))
           tmplFile == Join3(InputPath, <<TemplateDirName>>, <<sel.ftmpl>>)
       IN  IF cur.kind = "dir"
           THEN \E outcome \in {"ok", "mkdir", "readdir"} :
                   LET made == outcome # "mkdir" /\ CanMkdirAll(fs, Abs(dest)) IN
                   /\ log' = Append(log, Evt("mkdirall", dest, path, made))
                   /\ fs' = IF made THEN MkdirAllFS(fs, Abs(dest)) ELSE fs
                   /\ IF made /\ outcome = "ok"
                      THEN /\ stack' = WalkChildren(fs, path) \o Tail(stack)
                           /\ pc' = "walk"
                           /\ UNCHANGED err
                      ELSE /\ Fatal(IF made THEN "readdirnames" ELSE "mkdirall")
                           /\ UNCHANGED stack
                   /\ UNCHANGED handles
           ELSE IF IsRendered(cur.kind, Ext(path))
           THEN \E outcome \in {"ok", "create", "parse", "execute", "close"} :
                   LET created == outcome # "create" /\ CanCreate(fs, Abs(dest))
                       parsed  == outcome # "parse" /\ CanOpen(fs, tmplFile)
                                  /\ CanOpen(fs, path)
                   IN
                   /\ log' = Append(log, Evt("create", dest, path, created))
                             \o (IF created /\ outcome # "ok"
                                 THEN <<Evt(outcome, dest, path, FALSE)>>
                                 ELSE IF created /\ ~parsed
                                 THEN <<Evt("parse", dest, path, FALSE)>>
                                 ELSE << >>)
                   /\ IF ~created
                      THEN /\ Fatal("create")
                           /\ UNCHANGED <<fs, handles, stack>>
                      ELSE IF ~parsed
                      THEN \* line 285: returns with the new file empty and open
                           /\ Fatal("parse")
                           /\ fs' = WriteFS(fs, Abs(dest), FileNode("empty"))
                           /\ handles' = handles \cup {dest}
                           /\ UNCHANGED stack
                      ELSE IF outcome = "execute"
                      THEN \* line 288: returns with the file partly written and open
                           /\ Fatal("execute")
                           /\ fs' = WriteFS(fs, Abs(dest), FileNode("partial"))
                           /\ handles' = handles \cup {dest}
                           /\ UNCHANGED stack
                      ELSE /\ fs' = WriteFS(fs, Abs(dest),
                                      Node("file", "html", sel.ftmpl, sel.fdata, path))
                           /\ UNCHANGED handles
                           /\ IF outcome = "close"
                              THEN Fatal("closefile") /\ UNCHANGED stack
                              ELSE /\ stack' = Tail(stack)
                                   /\ pc' = "walk"
                                   /\ UNCHANGED err
           ELSE /\ stack' = Tail(stack)
                /\ pc' = "walk"
                /\ UNCHANGED <<fs, handles, log, err>>
    /\ UNCHANGED <<rdCall, thCall,
                   InputPath, Config, fs0, absInputPath, files, configs, cur,
                   cfg, thumbs, thumbKey, imgStack, envChanges,
                   ignored>>

\* Lines 295-299 and 183-186: the walk is over, generateHTML returns nil and
\* build returns.
GenerateDone ==
    /\ pc = "walk"
    /\ stack = << >>
    /\ pc' = "done"
    /\ UNCHANGED <<rdCall, thCall,
                   InputPath, Config, fs, fs0, absInputPath, files, configs,
                   stack, cur, cfg, thumbs, thumbKey, imgStack,
                   handles, log, err, envChanges, ignored>>

(***************************************************************************)
(* The environment: while the walk runs, another process may rewrite,      *)
(* remove or create the siteware.json of a directory.  A change made       *)
(* before the directory is first resolved is an initial state; the ones    *)
(* modelled are those made after, before an entry of the directory is      *)
(* visited again.                                                          *)
(***************************************************************************)
EnvChange ==
    /\ pc = "walk"
    /\ stack # << >>
    /\ envChanges < MaxEnvChanges
    /\ \E dir \in DOMAIN configs \cap {Dir(Head(stack))}, c \in {"none", "cfgB"} :
          LET file == Abs(Join(dir, <<DirConfigFileName>>)) IN
          /\ IF c = "none"
             THEN Exists(fs, file) /\ fs' = RemoveFS(fs, file)
             ELSE /\ ~(Exists(fs, file) /\ fs[file].data = c)
                  /\ fs' = WriteFS(fs, file, CfgNode(c))
    /\ envChanges' = envChanges + 1
    /\ UNCHANGED <<rdCall, thCall,
                   InputPath, Config, fs0, pc, absInputPath, files, configs,
                   stack, cur, cfg, thumbs, thumbKey, imgStack,
                   handles, log, err, ignored>>

Next ==
    \/ LoadConfig
    \/ ResolveInputPath
    \/ CheckOutput
    \/ OpenRepo
    \/ ReaddirRepo
    \/ ClearEntry
    \/ CloseRepo
    \/ SyncStatics
    \/ GenerateHTML
    \/ WalkNext
    \/ ResolveDirConfig
    \/ ThumbsStart
    \/ ImgWalk
    \/ ImgWalkDone
    \/ ThumbsDone
    \/ Dispatch
    \/ GenerateDone
    \/ EnvChange

Spec == Init /\ [][Next]_vars


(***************************************************************************)
(* What the properties below speak about.                                  *)
(***************************************************************************)
LogIdx == 1..Len(log)

\* The output root and the source root as nodes of the file system.
OutRoot == Abs(OutputPath)
SrcRoot == Abs(SourceRoot)

\* The immediate child of the output root that q is or lies beneath.
TopName(q) == q[Len(OutRoot) + 1]

InOutput(q) == IsUnder(q, OutRoot) /\ q # OutRoot

\* The master configuration that build loads holds an empty output path.
MasterOutputEmpty == Len(fs0[Join(Cwd, <<ConfigFileName>>)].ref) = 0

\* The configuration of directory dir (a path as the walk names it) when the
\* build began: its siteware.json decoded, the defaults without one.
ConfigAtStart(dir) ==
    LET file == Abs(Join(dir, <<DirConfigFileName>>))
    IN  IF Exists(fs0, file) THEN DecodeDirConfig(fs0[file].data)
        ELSE DefaultDirConfig

HadConfigFile(dir) == Exists(fs0, Abs(Join(dir, <<DirConfigFileName>>)))

\* The rendered files.
Rendered == {q \in DOMAIN fs : fs[q].tag = "html"}

\* How often the siteware.json of dir was opened, or looked for in vain.
Opens(dir) ==
    Cardinality({i \in LogIdx : /\ log[i].op \in {"opencfg", "opencfg.absent"}
                                /\ log[i].q = dir})

\* The entries of dir the walk has visited.
Visits(dir) == {i \in LogIdx : log[i].op = "visit" /\ log[i].ok /\ Dir(log[i].p) = dir}

\* Where an operation of the log belongs: 1 the clearing loop, 2 the static
\* sync, 3 the walk (thumbnails included), 0 what comes before.
Phase(op) ==
    CASE op = "remove" -> 1
      [] op = "sync" -> 2
      [] op \in {"open", "openrepo", "readdir"} -> 0
      [] OTHER -> 3

(***************************************************************************)
(* C1.  After the clearing loop every child of the output root named .git, *)
(* static, .gitignore or CNAME is still there with its whole subtree       *)
(* untouched, and every other child is gone with all beneath it.           *)
(***************************************************************************)
C1_LoopClearsAllButProtected ==
    (pc = "clear" /\ files = << >>) =>
        /\ \A q \in DOMAIN fs0 :
              InOutput(q) =>
                 IF IsProtected(TopName(q))
                 THEN Exists(fs, q) /\ fs[q] = fs0[q]
                 ELSE ~Exists(fs, q)
        /\ \A q \in DOMAIN fs : InOutput(q) => Exists(fs0, q)

(***************************************************************************)
(* C2.  With an empty output path in the master configuration the build    *)
(* ends at the test of line 143: the output root is not even opened,       *)
(* nothing is deleted, synced or created, and the file system stays as it  *)
(* was.                                                                    *)
(***************************************************************************)
C2_EmptyOutputAborts ==
    MasterOutputEmpty =>
        /\ pc \in {"load", "abs", "check", "fatal"}
        /\ fs = fs0
        /\ \A i \in LogIdx : log[i].op = "open"
        /\ configs = [d \in {} |-> 0]

C2_Witness ==
    MasterOutputEmpty /\ pc = "fatal" /\ err = "output unset"
    /\ \E q \in DOMAIN fs : InOutput(q) /\ ~IsProtected(TopName(q))

(***************************************************************************)
(* C3.  Every rendered file F of directory D carries default.template and  *)
(* no data when D had no siteware.json or its configuration has no key F;  *)
(* default.template and the entry's data when the entry's template is      *)
(* blank; the entry's template and data otherwise.                         *)
(***************************************************************************)
C3_TemplateAndData ==
    \A q \in Rendered :
        LET F == Base(fs[q].ref)
            D == Dir(fs[q].ref)
            c == ConfigAtStart(D)
        IN  /\ (~HadConfigFile(D) \/ F \notin DOMAIN c) =>
                  fs[q].tmpl = DefaultTemplateName /\ fs[q].data = NilData
            /\ (F \in DOMAIN c /\ c[F].Template = "") =>
                  fs[q].tmpl = DefaultTemplateName /\ fs[q].data = c[F].Data
            /\ (F \in DOMAIN c /\ c[F].Template # "") =>
                  fs[q].tmpl = c[F].Template /\ fs[q].data = c[F].Data

C3_Witness ==
    /\ pc = "done"
    /\ \E q \in Rendered :
          \/ ~HadConfigFile(Dir(fs[q].ref))
          \/ Base(fs[q].ref) \notin DOMAIN ConfigAtStart(Dir(fs[q].ref))
    /\ \E q \in Rendered :
          LET c == ConfigAtStart(Dir(fs[q].ref)) IN
          /\ Base(fs[q].ref) \in DOMAIN c
          /\ c[Base(fs[q].ref)].Template = ""
          /\ fs[q].data # NilData
    /\ \E q \in Rendered :
          LET c == ConfigAtStart(Dir(fs[q].ref)) IN
          /\ Base(fs[q].ref) \in DOMAIN c
          /\ c[Base(fs[q].ref)].Template # ""

(***************************************************************************)
(* C4.  The walker renders an entry if and only if it is a regular file    *)
(* with extension .html or .htm: never a directory, never an entry that is *)
(* neither a directory nor a regular file, and no other regular file.      *)
(***************************************************************************)
IsRegularHtml(f, path) ==
    /\ Exists(f, Abs(path))
    /\ f[Abs(path)].kind = "file"
    /\ Ext(path) \in {".html", ".htm"}

C4_RendersExactlyRegularHtml ==
    /\ \A i \in LogIdx :
          log[i].op = "create" => IsRegularHtml(fs0, log[i].q)
    /\ pc = "done" =>
          \A s \in DOMAIN fs0 :
              (IsUnder(s, SrcRoot) /\ IsRegularHtml(fs0, s)) =>
                  \E i \in LogIdx : log[i].op = "create" /\ Abs(log[i].q) = s

(***************************************************************************)
(* C5.  After a build that ends without error the output tree outside the  *)
(* protected entries holds exactly one directory for every directory of    *)
(* the source tree and one file for every regular .html/.htm file of it,   *)
(* at the same relative path.                                              *)
(***************************************************************************)
Mirror(s) == Join(OutRoot, TrimPrefix(s, SrcRoot))

C5_OutputMirrorsSource ==
    pc = "done" =>
        LET srcDirs  == {s \in DOMAIN fs0 : IsUnder(s, SrcRoot) /\ fs0[s].kind = "dir"}
            srcHtml  == {s \in DOMAIN fs0 : IsUnder(s, SrcRoot) /\ IsRegularHtml(fs0, s)}
            unprot   == {q \in DOMAIN fs : InOutput(q) /\ ~IsProtected(TopName(q))}
        IN  /\ {q \in unprot : fs[q].kind = "dir"} = {Mirror(s) : s \in srcDirs} \ {OutRoot}
            /\ {q \in unprot : fs[q].kind # "dir"} = {Mirror(s) : s \in srcHtml}
            /\ \A q \in unprot : fs[q].kind # "dir" => fs[q].tag = "html"

(***************************************************************************)
(* C6.  Within one run of generateHTML the siteware.json of a directory is *)
(* opened at most once, whatever happens to the file afterwards; the entry *)
(* of configs for the directory is what that one reading gave, so it never *)
(* changes, and every entry of the directory is dispatched with it.        *)
(***************************************************************************)
C6_ConfigReadOnce ==
    /\ \A i \in LogIdx :
          log[i].op \in {"opencfg", "opencfg.absent"} => Opens(log[i].q) = 1
    /\ \A d \in DOMAIN configs :
          /\ Opens(d) = 1
          /\ configs[d] = ConfigAtStart(d)
    /\ pc = "dispatch" =>
          /\ Dir(cur.path) \in DOMAIN configs
          /\ cfg = configs[Dir(cur.path)]

\* A directory was resolved, its file was then rewritten or removed, and
\* entries of the directory were visited after that.
C6_Witness ==
    /\ pc = "done"
    /\ envChanges > 0
    /\ \E d \in DOMAIN configs :
          LET file == Abs(Join(d, <<DirConfigFileName>>)) IN
          /\ Cardinality(Visits(d)) >= 3
          /\ \/ Exists(fs, file) # Exists(fs0, file)
             \/ /\ Exists(fs, file)
                /\ fs[file].data # fs0[file].data

(***************************************************************************)
(* C7.  Whenever an operation of the build has failed, the build has       *)
(* aborted with an error and does not go on; only a siteware.json that     *)
(* does not exist lets it continue.                                        *)
(***************************************************************************)
C7_EveryFailureIsFatal ==
    (\E i \in LogIdx : ~log[i].ok) => pc \in {"fatal", "panic"}

(***************************************************************************)
(* C8.  Every deletion of the clearing loop comes before the static sync,  *)
(* the sync has succeeded before the walk visits its first entry, and no   *)
(* operation of the walk (a visit, a write, a thumbnail) comes before a    *)
(* deletion or before the sync: the three phases follow one another.       *)
(***************************************************************************)
C8_PhasesInOrder ==
    /\ \A i \in LogIdx : \A j \in LogIdx :
          i < j => Phase(log[i].op) <= Phase(log[j].op)
    /\ \A j \in LogIdx :
          Phase(log[j].op) = 3 =>
              \E i \in 1..(j - 1) : log[i].op = "sync" /\ log[i].ok
    /\ Cardinality({i \in LogIdx : log[i].op = "sync"}) <= 1
    /\ pc \in {"walk", "resolve", "thumbs", "imgwalk", "dispatch", "done"} =>
          \E i \in LogIdx : log[i].op = "sync" /\ log[i].ok

C8_Witness ==
    /\ pc = "done"
    /\ \E i \in LogIdx : log[i].op = "remove" /\ log[i].ok
    /\ \E i \in LogIdx : log[i].op = "create" /\ log[i].ok
    /\ \E i \in LogIdx : log[i].op = "save" /\ log[i].ok

(***************************************************************************)
(* C9.  For every directory D and every key P of the AutoThumbnail of its  *)
(* configuration, thumbnail generation for P starts at most once, and only *)
(* in the callback that read D's siteware.json; later visits of entries of *)
(* D do not start it again.                                                *)
(***************************************************************************)
C9_ThumbnailsOncePerDirAndKey ==
    \A i \in LogIdx :
        log[i].op = "thumbs" =>
            /\ \A j \in LogIdx :
                  (log[j].op = "thumbs" /\ log[j].p = log[i].p
                      /\ log[j].q = log[i].q) => j = i
            /\ \E j \in 1..(i - 1) :
                  /\ log[j].op = "opencfg"
                  /\ log[j].q = log[i].q
                  /\ \A k \in (j + 1)..(i - 1) : log[k].op # "visit"

\* Thumbnails were generated for a directory and more of its entries were
\* visited afterwards.
C9_Witness ==
    /\ pc = "done"
    /\ \E i \in LogIdx :
          /\ log[i].op = "thumbs"
          /\ Cardinality({j \in Visits(log[i].q) : j > i}) >= 2

(***************************************************************************)
(* C10.  The derivative of the image <input>/static/<R>/<name> is written  *)
(* to <output>/static/<R>/.thumbs/<name>, whatever the input path is.      *)
(***************************************************************************)
ThumbnailHome(imgPath) ==
    LET rel == TrimPrefix(Abs(imgPath), Join(Abs(InputPath), <<StaticDirName>>))
    IN  Join4(Join(OutRoot, <<StaticDirName>>), Dir(rel), <<ThumbDirName>>,
              <<Base(imgPath)>>)

C10_ThumbnailBesideImage ==
    \A i \in LogIdx :
        log[i].op = "save" => Abs(log[i].p) = ThumbnailHome(log[i].q)

(***************************************************************************)
(* C11.  The image walk makes a derivative of every file under the         *)
(* configured subpath whose extension is .png, .jpg or .jpeg in any        *)
(* spelling of upper and lower case, and of no other file.                 *)
(***************************************************************************)
\* strings.ToLower over the extensions of the model.
LowerExt(ext) == IF ext = ".PNG" THEN ".png" ELSE ext

IsImageName(p) == LowerExt(Ext(p)) \in {".png", ".jpg", ".jpeg"}

\* The image walk has still to reach node f.
ImgPending(f) == \E i \in 1..Len(imgStack) : IsUnder(f, Abs(imgStack[i]))

C11_EveryImageAnyCase ==
    /\ pc = "imgwalk" =>
          \A f \in DOMAIN fs :
              ( /\ IsUnder(f, Abs(Join3(InputPath, <<StaticDirName>>, thumbKey)))
                /\ fs[f].kind = "file"
                /\ IsImageName(f) ) =>
                  \/ ImgPending(f)
                  \/ \E i \in LogIdx : log[i].op = "save" /\ Abs(log[i].q) = f
    /\ \A i \in LogIdx : log[i].op = "save" => IsImageName(log[i].q)

(***************************************************************************)
(* readdir (siteware.go:330-347), the function templates call while        *)
(* t.Execute runs.  Its results are named: files is nil until assigned.    *)
(***************************************************************************)
\* The build-side variables while the build stands at `where` and a function
\* it called runs.
BuildAt(where, kids) ==
    /\ InputPath = Dot
    /\ Config = [Output |-> OutputPath]
    /\ fs = InitFS(kids, "file", "file", OutputPath, NoConfigs)
    /\ fs0 = fs
    /\ pc = where
    /\ absInputPath = Cwd
    /\ files = << >>
    /\ configs = [d \in {} |-> 0]
    /\ stack = << >>
    /\ cur = NoEntry
    /\ cfg = DefaultDirConfig
    /\ thumbs = {}
    /\ thumbKey = << >>
    /\ imgStack = << >>
    /\ handles = {}
    /\ log = << >>
    /\ err = ""
    /\ envChanges = 0
    /\ ignored = 0

\* The arguments templates pass: directories, a regular file, a name that
\* does not exist.
ReaddirPaths ==
    { Dot, <<SourceDirName>>, OutputPath, <<StaticDirName, "img">>,
      <<SourceDirName, "notes.txt">>, <<"missing">> }

InitReaddir ==
    \E kids \in OutChildSets, path \in ReaddirPaths :
        /\ BuildAt("execute", kids)
        /\ thCall = NoCall
        /\ rdCall = [at |-> "abs", arg |-> path, path |-> path,
                     files |-> << >>, failed |-> FALSE, root |-> "nil"]

\* Lines 333-336: path, err = filepath.Abs(path).
ReaddirAbs ==
    /\ rdCall.at = "abs"
    /\ \E ok \in BOOLEAN :
          rdCall' = IF ok
                    THEN [rdCall EXCEPT !.path = Abs(rdCall.path), !.at = "open"]
                    ELSE [rdCall EXCEPT !.failed = TRUE, !.at = "return"]
    /\ UNCHANGED <<thCall, InputPath, Config, fs, fs0, pc, absInputPath, files,
                   configs, stack, cur, cfg, thumbs, thumbKey, imgStack,
                   handles, log, err, envChanges, ignored>>

\* Lines 338-343: root, err = os.Open(path); the close is deferred only
\* when the open succeeded.
ReaddirOpen ==
    /\ rdCall.at = "open"
    /\ \E ok \in BOOLEAN :
          rdCall' = IF ok /\ CanOpen(fs, rdCall.path)
                    THEN [rdCall EXCEPT !.root = "open", !.at = "read"]
                    ELSE [rdCall EXCEPT !.failed = TRUE, !.at = "return"]
    /\ UNCHANGED <<thCall, InputPath, Config, fs, fs0, pc, absInputPath, files,
                   configs, stack, cur, cfg, thumbs, thumbKey, imgStack,
                   handles, log, err, envChanges, ignored>>

\* What root.Readdir(0) can give for directory d: every entry and no error,
\* or the entries read before an error and the error.
ReaddirResults(f, d) ==
    LET all == {FileInfos(f, d), Reverse(FileInfos(f, d))}
    IN  {[files |-> a, failed |-> FALSE] : a \in all}
        \cup {[files |-> SubSeq(a, 1, n), failed |-> TRUE] :
                 a \in all, n \in 0..Len(FileInfos(f, d))}

\* Lines 345-346: files, err = root.Readdir(0); return.  On something that
\* is no directory Readdir gives nil and an error.
ReaddirRead ==
    /\ rdCall.at = "read"
    /\ \E r \in (IF IsDirAt(fs, rdCall.path)
                 THEN ReaddirResults(fs, rdCall.path)
                 ELSE {[files |-> << >>, failed |-> TRUE]}) :
          rdCall' = [rdCall EXCEPT !.files = r.files, !.failed = r.failed,
                                   !.at = "close"]
    /\ UNCHANGED <<thCall, InputPath, Config, fs, fs0, pc, absInputPath, files,
                   configs, stack, cur, cfg, thumbs, thumbKey, imgStack,
                   handles, log, err, envChanges, ignored>>

\* Line 343: the deferred root.Close() runs; its result is dropped.
ReaddirClose ==
    /\ rdCall.at = "close"
    /\ rdCall' = [rdCall EXCEPT !.root = "closed", !.at = "return"]
    /\ UNCHANGED <<thCall, InputPath, Config, fs, fs0, pc, absInputPath, files,
                   configs, stack, cur, cfg, thumbs, thumbKey, imgStack,
                   handles, log, err, envChanges, ignored>>

NextReaddir ==
    \/ ReaddirAbs
    \/ ReaddirOpen
    \/ ReaddirRead
    \/ ReaddirClose

SpecReaddir == InitReaddir /\ [][NextReaddir]_vars

(***************************************************************************)
(* C12.  readdir returns the whole listing of the directory when resolving *)
(* the path, opening it and reading it all succeeded, and an empty listing *)
(* whenever one of the three failed, a read that failed after some entries *)
(* included; it hands no error to the template.                            *)
(***************************************************************************)
C12_ReaddirEmptyOnFailure ==
    rdCall.at = "return" =>
        IF rdCall.failed
        THEN rdCall.files = << >>
        ELSE /\ IsDirAt(fs, Abs(rdCall.arg))
             /\ rdCall.files \in {FileInfos(fs, Abs(rdCall.arg)),
                                  Reverse(FileInfos(fs, Abs(rdCall.arg)))}

(***************************************************************************)
(* C13.  When the siteware.json read for a directory declares AutoThumbnail *)
(* keys, the thumbnail loop has run for every one of them, and is over,    *)
(* before the entry whose visit read the file is dispatched (its directory *)
(* made or its file created) and before any later entry is visited: the    *)
(* .thumbs directory of every key and every derivative written are there   *)
(* by then.                                                                *)
(***************************************************************************)
\* log[j] dispatches an entry of the source tree or visits one.
IsWalkStep(j) ==
    \/ log[j].op \in {"visit", "create"}
    \/ log[j].op = "mkdirall" /\ log[j].q # << >>

\* The keys declared by the configuration read at log[i].
DeclaredKeys(i) ==
    IF /\ log[i].q \in DOMAIN configs
       /\ StaticDirName \in DOMAIN configs[log[i].q]
    THEN DOMAIN configs[log[i].q][StaticDirName].AutoThumbnail
    ELSE {}

\* The loop has run for every declared key, and is over, before the walk
\* goes on.
ThumbnailLoopBeforeDispatch ==
    /\ \A i \in LogIdx : \A j \in LogIdx :
          (log[i].op = "opencfg" /\ i < j /\ IsWalkStep(j)) =>
              \A k \in DeclaredKeys(i) :
                  \E t \in (i + 1)..(j - 1) :
                      /\ log[t].op = "thumbs"
                      /\ log[t].p = k
                      /\ log[t].q = log[i].q
    /\ pc \in {"dispatch", "walk", "done"} =>
          /\ thumbs = {}
          /\ imgStack = << >>
          /\ \A i \in LogIdx :
                log[i].op = "thumbs" =>
                    IsDirAt(fs, Abs(Join4(Config.Output, <<StaticDirName>>,
                                          log[i].p, <<ThumbDirName>>)))

\* The images under the static directory named by key k.
ImagesOf(k) ==
    {f \in DOMAIN fs :
        /\ IsUnder(f, Abs(Join3(InputPath, <<StaticDirName>>, k)))
        /\ fs[f].kind = "file"
        /\ IsImageName(f)}

\* The derivatives of the declared keys exist when the walk goes on.
ThumbnailsExistBeforeDispatch ==
    pc \in {"dispatch", "walk", "done"} =>
        \A i \in LogIdx :
            log[i].op = "opencfg" =>
                \A k \in DeclaredKeys(i) : \A f \in ImagesOf(k) :
                    /\ Exists(fs, ThumbnailHome(f))
                    /\ fs[ThumbnailHome(f)].tag = "thumb"

C13_ThumbnailsBeforeDispatch ==
    ThumbnailLoopBeforeDispatch /\ ThumbnailsExistBeforeDispatch

(***************************************************************************)
(* C14.  Once the callback of the walk has returned an error, nothing      *)
(* more happens: no entry is visited, no directory or file is made, the    *)
(* build ends with that error; and the step that fails takes nothing back  *)
(* of what was written or deleted before it.                               *)
(***************************************************************************)
\* Every node is still there and unchanged; a file may have been added.
NoRollback == \A q \in DOMAIN fs : q \in DOMAIN fs' /\ fs'[q] = fs[q]

C14_AbortImmediateNoRollback ==
    [][ /\ err = ""
        /\ err' # "" => (NoRollback /\ pc' \in {"fatal", "panic"}) ]_vars

\* The walk failed while rendering, after the loop had deleted an entry and
\* the walk had written a file, with entries of the source tree unvisited.
C14_Witness ==
    /\ pc = "fatal"
    /\ err \in {"parse", "execute", "closefile"}
    /\ Len(stack) > 1
    /\ \E i \in LogIdx : log[i].op = "remove" /\ log[i].ok
    /\ \E i \in LogIdx :
          /\ log[i].op = "create" /\ log[i].ok /\ i < Len(log) - 1
          /\ Exists(fs, Abs(log[i].p))
    /\ ~Exists(fs, Abs(Join(Config.Output, <<"old.html">>)))

(***************************************************************************)
(* C15.  The template and the data a file is rendered with are determined  *)
(* by the siteware.json of the file's own directory and the file's name:   *)
(* whatever the configuration files of the other directories hold, the     *)
(* directory above included, the outcome is the same.                      *)
(***************************************************************************)
\* What the siteware.json of directory dir held when the build began.
OwnContent(dir) ==
    LET file == Abs(Join(dir, <<DirConfigFileName>>))
    IN  IF Exists(fs0, file) THEN fs0[file].data ELSE "none"

\* The template and data that a directory whose own siteware.json holds
\* `content` gives the file `name`.
RenderOf(content, name) ==
    IF content = "none" \/ name \notin DOMAIN DecodeDirConfig(content)
    THEN <<DefaultTemplateName, NilData>>
    ELSE LET e == DecodeDirConfig(content)[name]
         IN  <<IF e.Template = "" THEN DefaultTemplateName ELSE e.Template,
               e.Data>>

C15_NoInheritance ==
    /\ \A q \in Rendered :
          <<fs[q].tmpl, fs[q].data>> =
              RenderOf(OwnContent(Dir(fs[q].ref)), Base(fs[q].ref))
    /\ pc = "dispatch" =>
          cfg = (IF OwnContent(Dir(cur.path)) = "none" THEN DefaultDirConfig
                 ELSE DecodeDirConfig(OwnContent(Dir(cur.path))))

\* A file was rendered with the defaults although the siteware.json of the
\* directory above its own has an entry for its name.
C15_Witness ==
    /\ pc = "done"
    /\ \E q \in Rendered :
          LET name == Base(fs[q].ref)
              own  == Dir(fs[q].ref)
              up   == Dir(own)
          IN  /\ up # own
              /\ OwnContent(up) # "none"
              /\ name \in DOMAIN DecodeDirConfig(OwnContent(up))
              /\ RenderOf(OwnContent(up), name) # <<DefaultTemplateName, NilData>>
              /\ RenderOf(OwnContent(own), name) = <<DefaultTemplateName, NilData>>
              /\ fs[q].tmpl = DefaultTemplateName
              /\ fs[q].data = NilData

(***************************************************************************)
(* C16.  The directory that receives a derivative exists when the          *)
(* derivative is saved, for images in directories nested below the         *)
(* configured subpath too: no save fails for want of its directory.        *)
(***************************************************************************)
C16_ThumbDirExistsAtSave ==
    \A i \in LogIdx :
        log[i].op = "save" => IsDirAt(fs, Parent(Abs(log[i].p)))

(***************************************************************************)
(* C17.  Whenever build or the callback of the walk has returned or        *)
(* aborted, none of the files it opened (the master configuration, a       *)
(* directory's siteware.json, a destination file) is still open.           *)
(***************************************************************************)
C17_NoHandleLeftOpen ==
    pc \in {"walk", "done", "fatal", "panic"} =>
        handles \ {Config.Output} = {}

(***************************************************************************)
(* thumbnail (siteware.go:302-328).  Images are their dimensions,          *)
(* <<width, height>>.  The four functions of the imaging library are       *)
(* modelled by the dimensions their documentation gives the result, for    *)
(* positive target dimensions.                                             *)
(***************************************************************************)
\* The largest width and height of a source image and of a configuration.
MaxDim == 3

Dims == (1..MaxDim) \X (1..MaxDim)

\* n * a / b rounded to the nearest integer, at least 1.
Scaled(n, a, b) ==
    LET r == (2 * n * a + b) \div (2 * b) IN IF r < 1 THEN 1 ELSE r

\* imaging.Resize: exactly w x h, whatever the aspect of the source.
ImagingResize(src, w, h) == <<w, h>>

\* imaging.Fit: the source itself when it fits; otherwise scaled down,
\* aspect kept, to the largest size within w x h.
ImagingFit(src, w, h) ==
    IF src[1] <= w /\ src[2] <= h THEN src
    ELSE IF src[1] * h > w * src[2]
         THEN <<w, Scaled(w, src[2], src[1])>>
         ELSE <<Scaled(h, src[1], src[2]), h>>

\* imaging.Fill: scaled, aspect kept, to cover w x h and cropped to it.
ImagingFill(src, w, h) == <<w, h>>

\* imaging.Thumbnail: scaled and cropped to w x h.
ImagingThumbnail(src, w, h) == <<w, h>>

\* The method strings of the model and strings.ToLower on them.
Methods == {"resize", "Resize", "fit", "fill", "FILL", "thumbnail", "", "crop"}

ToLower(str) ==
    CASE str = "Resize" -> "resize"
      [] str = "FILL" -> "fill"
      [] OTHER -> str

\* The switch with its default case leading to imaging.Fit.
StrategyDefaultFit(method) ==
    CASE ToLower(method) = "resize" -> "Resize"
      [] ToLower(method) = "fit" -> "Fit"
      [] ToLower(method) = "fill" -> "Fill"
      [] OTHER -> "Fit"

\* Lines 310-321: the switch on strings.ToLower(cfg.Method); "thumbnail"
\* falls through to the default case.
Strategy(method) ==
    CASE ToLower(method) = "resize" -> "Resize"
      [] ToLower(method) = "fit" -> "Fit"
      [] ToLower(method) = "fill" -> "Fill"
      [] ToLower(method) = "thumbnail" -> "Thumbnail"
      [] OTHER -> "Thumbnail"

\* Lines 312-320: the call each case makes.
Apply(strategy, src, w, h) ==
    CASE strategy = "Resize" -> ImagingResize(src, w, h)
      [] strategy = "Fit" -> ImagingFit(src, w, h)
      [] strategy = "Fill" -> ImagingFill(src, w, h)
      [] OTHER -> ImagingThumbnail(src, w, h)

InitThumbnail ==
    \E m \in Methods, src \in Dims, size \in Dims :
        /\ BuildAt("imgwalk", BaseChildren)
        /\ rdCall = NoCall
        /\ thCall = [at |-> "open", src |-> src,
                     cfg |-> ThumbnailConfig(m, size[1], size[2]),
                     strategy |-> "", thumb |-> << >>, failed |-> FALSE]

\* Lines 303-306: imaging.Open(src).
ThumbnailOpen ==
    /\ thCall.at = "open"
    /\ \E ok \in BOOLEAN :
          thCall' = IF ok THEN [thCall EXCEPT !.at = "switch"]
                    ELSE [thCall EXCEPT !.failed = TRUE, !.at = "return"]
    /\ UNCHANGED <<rdCall, InputPath, Config, fs, fs0, pc, absInputPath, files,
                   configs, stack, cur, cfg, thumbs, thumbKey, imgStack,
                   handles, log, err, envChanges, ignored>>

\* Lines 308-321: the switch assigns thumb.
ThumbnailSwitch ==
    /\ thCall.at = "switch"
    /\ LET st == Strategy(thCall.cfg.Method) IN
       thCall' = [thCall EXCEPT
                    !.strategy = st,
                    !.thumb = Apply(st, thCall.src, thCall.cfg.Width,
                                    thCall.cfg.Height),
                    !.at = "save"]
    /\ UNCHANGED <<rdCall, InputPath, Config, fs, fs0, pc, absInputPath, files,
                   configs, stack, cur, cfg, thumbs, thumbKey, imgStack,
                   handles, log, err, envChanges, ignored>>

\* Lines 323-327: imaging.Save(thumb, dest).
ThumbnailSave ==
    /\ thCall.at = "save"
    /\ \E ok \in BOOLEAN :
          thCall' = [thCall EXCEPT !.failed = ~ok, !.at = "return"]
    /\ UNCHANGED <<rdCall, InputPath, Config, fs, fs0, pc, absInputPath, files,
                   configs, stack, cur, cfg, thumbs, thumbKey, imgStack,
                   handles, log, err, envChanges, ignored>>

NextThumbnail ==
    \/ ThumbnailOpen
    \/ ThumbnailSwitch
    \/ ThumbnailSave

SpecThumbnail == InitThumbnail /\ [][NextThumbnail]_vars

(***************************************************************************)
(* C18.  The method, in any case of letters, selects resize (a result of   *)
(* exactly width x height), fit (a result within width x height: the       *)
(* source when it fits, otherwise one that reaches the width or the        *)
(* height) or fill (exactly width x height); "thumbnail", the empty        *)
(* method and every other string select one and the same default, whose    *)
(* result has the dimensions fill gives.                                   *)
(***************************************************************************)
ResizeNames == {"resize", "Resize"}
FitNames == {"fit"}
FillNames == {"fill", "FILL"}

C18_SizingDispatch ==
    thCall.at \in {"save", "return"} /\ thCall.strategy # "" =>
        LET m   == thCall.cfg.Method
            w   == thCall.cfg.Width
            h   == thCall.cfg.Height
            src == thCall.src
            t   == thCall.thumb
        IN  /\ m \in ResizeNames => thCall.strategy = "Resize" /\ t = <<w, h>>
            /\ m \in FitNames =>
                  /\ thCall.strategy = "Fit"
                  /\ t[1] <= w /\ t[2] <= h
                  /\ IF src[1] <= w /\ src[2] <= h THEN t = src
                     ELSE (t[1] = w \/ t[2] = h) /\ t[1] <= src[1] /\ t[2] <= src[2]
            /\ m \in FillNames => thCall.strategy = "Fill" /\ t = <<w, h>>
            /\ m \notin ResizeNames \cup FitNames \cup FillNames =>
                  /\ thCall.strategy = "Thumbnail"
                  /\ t = ImagingFill(src, w, h)
                  /\ t = <<w, h>>

\* An unrecognized method was given for a source whose aspect differs from
\* the target's and which does not fit it, and the result was saved.
C18_Witness ==
    /\ thCall.at = "return"
    /\ ~thCall.failed
    /\ thCall.cfg.Method = "crop"
    /\ thCall.src[1] > thCall.cfg.Width
    /\ thCall.src[1] * thCall.cfg.Height # thCall.src[2] * thCall.cfg.Width
    /\ thCall.thumb = <<thCall.cfg.Width, thCall.cfg.Height>>

(***************************************************************************)
(* C19.  With the output root outside the input directory, every removal,  *)
(* MkdirAll, file creation and save of the build names a path at or below  *)
(* the output root, whatever the keys of AutoThumbnail are, and the source *)
(* tree, the static source directory and the templates directory stay as   *)
(* they were.                                                              *)
(***************************************************************************)
\* The operations of the log that change the file system.
IsMutation(op) == op \in {"remove", "sync", "mkdirall", "create", "save"}

\* The three directories of the project and what lies beneath them; the
\* siteware.json files are the environment's to change.
ProjectNodes(f) ==
    {q \in DOMAIN f :
        /\ \E d \in {SourceDirName, StaticDirName, TemplateDirName} :
              IsUnder(q, Join(Cwd, <<d>>))
        /\ Base(q) # DirConfigFileName}

C19_WritesStayInOutput ==
    /\ \A i \in LogIdx :
          IsMutation(log[i].op) => IsUnder(Abs(log[i].p), OutRoot)
    /\ ProjectNodes(fs) = ProjectNodes(fs0)
    /\ \A q \in ProjectNodes(fs0) : fs[q] = fs0[q]

=============================================================================
